---- MODULE Spec2Model ----
(***************************************************************************)
(* Model of the ActorSystem of comedy (lib/actor-system.js, kept in        *)
(* src/lib/utils/logger/LoggerConfiguration.ts from line 146 on) and of    *)
(* its logger (LoggerConfiguration, createConfigFromFiles, LogWrapper):    *)
(* system construction and the ready promise, placement in createActor,    *)
(* the create-actor handshake with a forked worker, the process exit       *)
(* hooks, the actor configuration loader, the naming and serialization of  *)
(* behaviours, the default system, log levels and configuration reloads.   *)
(*                                                                         *)
(* The specifications share the variables:                                 *)
(*   Spec           a constructed system that serves createActor calls;    *)
(*   BootSpec       the constructor's promise chain up to the ready        *)
(*                  promise;                                               *)
(*   NameSpec       _actorName and the configuration lookup of createActor *)
(*                  on every shape of behaviour;                           *)
(*   SerializeSpec  _serializeBehaviour on every prototype chain;          *)
(*   LoggerSpec     a LogWrapper over a LoggerConfiguration;               *)
(*   ReloadSpec     the file watchers of createConfigFromFiles;            *)
(*   HierarchySpec  the worker processes of a hierarchy of systems and     *)
(*                  their debug ports.                                     *)
(***************************************************************************)
EXTENDS Integers, Sequences, FiniteSets, TLC

VARIABLES
    options,           \* this.options / the constructor's options argument
    config,            \* this.config
    debugPortCounter,  \* this.debugPortCounter
    execArgv,          \* process.execArgv
    actors,            \* every actor object constructed so far
    calls,             \* every createActor invocation and its promise
    workers,           \* every child process forked so far
    proc,              \* the parent process: its state (running or exited) and the cause
    log,               \* what was written to this.log
    boot,              \* the constructor's promise chain (rootActorPromise)
    fs,                \* the files the configuration loader may read
    fn,                \* the helper method under study, its argument and result
    defaultSystem,     \* the module's defaultSystem reference (0: undefined)
    systems,           \* how many ActorSystem instances default() constructed
    returned,          \* what the calls of default() returned, in order
    LogLevel,          \* the numbers of the LogLevel enumeration
    configuration,     \* a LoggerConfiguration: _current and its listeners
    logger,            \* a LogWrapper: _level, _category, _configuration
    sink,              \* what the LogWrapper's underlying logger received
    files,             \* the text of each logger configuration file
    watching,          \* the paths whose watcher has not been cancelled
    notified,          \* the paths with a change notification to deliver
    reloads,           \* the runs of the watch callback, in order of start
    changes,           \* how many times a file was changed
    processes          \* the processes of the hierarchy, each with its own system

\* The variables of the running system, of the module's default system, and
\* those an action of the one leaves to the others.
sysVars == << options, config, debugPortCounter, execArgv, actors, calls,
              workers, proc, log, boot, fs >>
defaultVars == << defaultSystem, systems, returned >>
logVars == << LogLevel, configuration, logger, sink >>
fileVars == << files, watching, notified, reloads, changes >>
treeVars == << processes >>
others == << fn, defaultVars, logVars, fileVars, treeVars >>
exceptFn == << sysVars, defaultVars, logVars, fileVars, treeVars >>
exceptDefault == << sysVars, fn, logVars, fileVars, treeVars >>
exceptLog == << sysVars, fn, defaultVars, fileVars, treeVars >>
exceptFiles == << sysVars, fn, defaultVars, treeVars >>
exceptTree == << sysVars, fn, defaultVars, logVars, fileVars >>
vars == << sysVars, fn, defaultVars, logVars, fileVars, treeVars >>

(***************************************************************************)
(* Bounds                                                                  *)
(***************************************************************************)
\* createActor calls clients make in one run
MaxClientCalls == 1
\* worker processes the requested actors need in one run
MaxForks == 2

(***************************************************************************)
(* Values                                                                  *)
(***************************************************************************)
\* A JavaScript string is a sequence of characters; "" is the empty sequence.
NoName == << >>
Foo == << "F", "o", "o" >>
foo == << "f", "o", "o" >>
Bar == << "B", "a", "r" >>
bar == << "b", "a", "r" >>

\* String.prototype.toLowerCase on one character, for the letters in use.
toLowerCase(ch) ==
    CASE ch = "F" -> "f"
      [] ch = "B" -> "b"
      [] ch = "O" -> "o"
      [] OTHER -> ch

\* underscore.string decapitalize: lower-cases the first character only.
decapitalize(str) ==
    IF str = << >> THEN str ELSE << toLowerCase(Head(str)) >> \o Tail(str)

\* An object without own keys ({} or an absent options argument).
EmptyObj == [k \in {} |-> 0]

\* A missing key reads as undefined; Get returns dflt for it.
Get(obj, key, dflt) == IF key \in DOMAIN obj THEN obj[key] ELSE dflt

\* A behaviour: isFunction tells a class from a plain object; the name property,
\* getName and ctorName are what _actorName reads from the instance.
Behaviour(isFn, nameKind, nameVal, hasGetName, getNameVal, ctor) ==
    [ isFunction |-> isFn, nameKind |-> nameKind, nameVal |-> nameVal,
      hasGetName |-> hasGetName, getNameVal |-> getNameVal, ctorName |-> ctor ]

\* class Foo {}                      -> named by its constructor
FooClass == Behaviour(TRUE, "absent", NoName, FALSE, NoName, Foo)
\* class Bar { getName() {...} }     -> named by getName()
BarClass == Behaviour(TRUE, "absent", NoName, TRUE, Bar, << "X" >>)
\* Object.create(null)-like record   -> anonymous
AnonObj == Behaviour(FALSE, "absent", NoName, FALSE, NoName, NoName)

Behaviours == { FooClass, BarClass, AnonObj }

\* Every shape of behaviour0 that _actorName tells apart. nameKind is
\* "absent", "value" (nameVal is the property's value) or "function" (nameVal
\* is what calling it returns).
NameBehaviours ==
    { Behaviour(f, k, nv, g, gv, c) :
        f \in BOOLEAN, k \in {"absent", "value", "function"},
        nv \in {NoName, Foo, bar}, g \in BOOLEAN, gv \in {NoName, Bar},
        c \in {NoName, Foo} }

\* if (behaviour0.name): a function is truthy, a string unless it is empty.
HasName(B) ==
    \/ B.nameKind = "function"
    \/ B.nameKind = "value" /\ B.nameVal # NoName

\* (variant) getName() is asked before the name property.
_actorNameGetNameFirst(B) ==
    IF B.hasGetName THEN B.getNameVal
    ELSE IF HasName(B) THEN B.nameVal
    ELSE IF B.ctorName # NoName THEN B.ctorName
    ELSE NoName

\* _actorName: a truthy name property (_.result calls it when it is a
\* function), else getName(), else the constructor's name, else "".
_actorName(B) ==
    IF HasName(B) THEN B.nameVal
    ELSE IF B.hasGetName THEN B.getNameVal
    ELSE IF B.ctorName # NoName THEN B.ctorName
    ELSE NoName

\* _.extend(dst, src): every key of src overrides the same key of dst.
extend(dst, src) ==
    [k \in DOMAIN dst \cup DOMAIN src |->
        IF k \in DOMAIN src THEN src[k] ELSE dst[k]]

DefaultOpts == [mode |-> "in-memory"]

\* this.config: undefined until a configuration is loaded, then an object
\* from decapitalized actor names to placement entries.
NoConfig == [defined |-> FALSE, entries |-> EmptyObj]
Config(entries) == [defined |-> TRUE, entries |-> entries]

\* { foo: { mode: 'forked', clusterSize: 3 }, bar: { clusterSize: 2 } }
CfgClusters ==
    Config([k \in {foo, bar} |->
        IF k = foo THEN [mode |-> "forked", clusterSize |-> 3]
        ELSE [clusterSize |-> 2]])
\* { foo: { mode: 'bogus' } }
CfgFooBogus == Config([k \in {foo} |-> [mode |-> "bogus"]])

Configs == { NoConfig, CfgClusters, CfgFooBogus }

\* What clients ask of createActor: a behaviour and the caller's options.
Request(B, given) == [beh |-> B, given |-> given]
Requests ==
    { Request(FooClass, EmptyObj),
      Request(FooClass, [clusterSize |-> 1]),
      Request(BarClass, EmptyObj),
      Request(AnonObj, [mode |-> "forked"]),
      Request(FooClass, [mode |-> "bogus", clusterSize |-> 2]),
      Request(BarClass, [mode |-> "forked", clusterSize |-> 2, custom |-> 1]),
      Request(AnonObj, [mode |-> "bogus"]) }

\* A frame a worker may send: its type, body.id (0 when the body or its id is
\* missing) and its top-level error text ("" when it carries none).
Frame(type, id, error) == [type |-> type, id |-> id, error |-> error]
NoFrame == Frame("none", 0, "")
Frames ==
    { Frame("actor-created", 1, ""),
      Frame("actor-created", 0, ""),
      Frame("actor-message", 1, ""),
      Frame("actor-message", 0, "boom"),
      Frame("actor-created", 1, "boom") }

\* One argument of process.execArgv: --debug-brk=<port> or anything else.
DebugBrk(port) == [debugBrk |-> TRUE, port |-> port]
OtherArg == [debugBrk |-> FALSE, port |-> 0]
ParentExecArgv == << OtherArg, DebugBrk(5858) >>

\* A call of a helper method: the method, its argument and what it returned;
\* done tells whether it has returned.
HelperCall(method, arg, done, ret) ==
    [method |-> method, arg |-> arg, done |-> done, ret |-> ret]
NoCall == HelperCall("none", 0, FALSE, 0)

\* One line written to this.log: its level and its text.
LogEntry(level, text) == [level |-> level, text |-> text]

(***************************************************************************)
(* Actors                                                                  *)
(***************************************************************************)
\* kind: "root", "in-memory", "balancer", "forked-parent", "forked-child".
\* parent and inner are indexes into actors (0: none); call is the
\* createActor invocation that constructed the actor (0: the constructor);
\* worker is the child process behind a forked-parent.
Actor(kind, parent, name, id, call, worker, inner) ==
    [ kind |-> kind, parent |-> parent, name |-> name, id |-> id,
      call |-> call, worker |-> worker, inner |-> inner ]

\* generateActorId for the n-th actor object of this process.
generateActorId(n) == << "local", n >>

(***************************************************************************)
(* Promises                                                                *)
(***************************************************************************)
\* resolve/reject of a promise: the first settlement wins, later ones are
\* ignored.
Settle(call, state, value, err) ==
    IF call.state = "pending"
    THEN [call EXCEPT !.state = state, !.value = value, !.err = err]
    ELSE call

Resolve(call, value) == Settle(call, "resolved", value, "")
Reject(call, err) == Settle(call, "rejected", 0, err)

(***************************************************************************)
(* createActor                                                             *)
(***************************************************************************)
\* (variant) the configuration entry overrides the caller's options.
EffectiveOptionsConfigWins(cfg, name, given) ==
    IF cfg.defined /\ name # NoName
    THEN extend(extend(DefaultOpts, given),
                Get(cfg.entries, decapitalize(name), EmptyObj))
    ELSE given

\* The options createActor works with: given a configuration and a name,
\* { mode: 'in-memory' } extended by the entry of the decapitalized name
\* (an absent entry extends nothing), extended by the caller's options.
EffectiveOptions(cfg, name, given) ==
    IF cfg.defined /\ name # NoName
    THEN extend(extend(DefaultOpts, Get(cfg.entries, decapitalize(name), EmptyObj)),
                given)
    ELSE given

\* options.clusterSize > 1 (an absent clusterSize compares false).
Clustered(opts) == Get(opts, "clusterSize", 0) > 1

\* switch (options.mode || 'in-memory'), after the cluster test.
Placement(opts) ==
    IF Clustered(opts) THEN "cluster"
    ELSE LET mode == Get(opts, "mode", "in-memory")
         IN  CASE mode = "in-memory" -> "in-memory"
               [] mode = "forked" -> "forked"
               [] OTHER -> "unknown"

\* (variant) the children get the options unchanged.
ChildOptionsSame(opts) == extend(EmptyObj, opts)

\* The options a balancer's children are created with.
ChildOptions(opts) == extend(extend(EmptyObj, opts), [clusterSize |-> 1])

\* The synchronous part of createActor(Behaviour, parent, options): the
\* promise it returns and what its continuation will do. owner is the cluster
\* invocation whose balancer asked for this child (0: a client's call).
\* An unknown mode returns a promise that can only reject.
createActor(B, parent, given, owner) ==
    LET name == _actorName(B)
        opts == EffectiveOptions(config, name, given)
        kind == Placement(opts)
    IN  [ beh |-> B, parent |-> parent, given |-> given, name |-> name,
          opts |-> opts, kind |-> kind, owner |-> owner,
          state |-> IF kind = "unknown" THEN "rejected" ELSE "pending",
          value |-> 0,
          err |-> IF kind = "unknown" THEN "Unknown actor mode" ELSE "",
          started |-> FALSE,   \* the continuation after P.resolve() has run
          balancer |-> 0,      \* balancerActor of a cluster invocation
          worker |-> 0,        \* workerProcess of a forked invocation
          sendDone |-> FALSE,  \* the callback of workerProcess.send has run
          listening |-> FALSE, \* the 'message' listener is registered
          actor |-> 0,         \* the closure variable 'actor'
          frame |-> NoFrame ]  \* the frame the 'message' listener handled

\* The worker processes an invocation will fork.
Forks(B, given) ==
    LET opts == EffectiveOptions(config, _actorName(B), given)
    IN  IF Get(opts, "mode", "in-memory") # "forked" THEN 0
        ELSE IF Clustered(opts) THEN opts.clusterSize ELSE 1

RECURSIVE ForksAsked(_)
ForksAsked(n) ==
    IF n = 0 THEN 0
    ELSE ForksAsked(n - 1) + (IF calls[n].kind = "forked" THEN 1 ELSE 0)

Running == proc.state = "running"

\* RoundRobinBalancerActor.createChild(Behaviour, options), an actor's
\* createChild: the system's createActor with the balancer as the parent.
createChild(balancer, B, given, owner) == createActor(B, balancer, given, owner)

\* A client calls createActor with the root actor as the parent.
ClientCreateActor(B, p, given) ==
    /\ Running
    /\ boot.pc = "ready"
    /\ p = boot.root
    /\ Cardinality({ c \in 1..Len(calls) : calls[c].owner = 0 }) < MaxClientCalls
    /\ ForksAsked(Len(calls)) + Forks(B, given) <= MaxForks
    /\ calls' = Append(calls, createActor(B, p, given, 0))
    /\ UNCHANGED << others, options, config, debugPortCounter, execArgv, actors,
                    workers, proc, log, boot, fs >>

\* createInMemoryActor's continuation: construct the actor and resolve.
RunInMemory(c) ==
    /\ Running
    /\ calls[c].kind = "in-memory"
    /\ ~calls[c].started
    /\ LET n == Len(actors) + 1
       IN  /\ actors' = Append(actors,
                  Actor("in-memory", calls[c].parent, calls[c].name,
                        generateActorId(n), c, 0, 0))
           /\ calls' = [calls EXCEPT
                  ![c] = Resolve([calls[c] EXCEPT !.started = TRUE], n)]
    /\ UNCHANGED << others, options, config, debugPortCounter, execArgv, workers, proc,
                    log, boot, fs >>

\* The cluster continuation: one balancer under the parent, then
\* options.clusterSize calls of balancerActor.createChild, each of which is
\* a createActor under the balancer.
RunCluster(c) ==
    /\ Running
    /\ calls[c].kind = "cluster"
    /\ ~calls[c].started
    /\ LET b == Len(actors) + 1
           child == createChild(b, calls[c].beh, ChildOptions(calls[c].opts), c)
       IN  /\ actors' = Append(actors,
                  Actor("balancer", calls[c].parent, << >>, generateActorId(b),
                        c, 0, 0))
           /\ calls' = [calls EXCEPT ![c].started = TRUE, ![c].balancer = b]
                           \o [i \in 1..calls[c].opts.clusterSize |-> child]
    /\ UNCHANGED << others, options, config, debugPortCounter, execArgv, workers, proc,
                    log, boot, fs >>

Children(c) == { i \in 1..Len(calls) : calls[i].owner = c }

\* P.all(childPromises).return(balancerActor): rejects with a child's error
\* once a child has rejected, resolves with the balancer once all have
\* resolved.
SettleCluster(c) ==
    /\ Running
    /\ calls[c].kind = "cluster"
    /\ calls[c].started
    /\ calls[c].state = "pending"
    /\ \/ \E i \in Children(c) :
            /\ calls[i].state = "rejected"
            /\ calls' = [calls EXCEPT ![c] = Reject(calls[c], calls[i].err)]
       \/ /\ \A i \in Children(c) : calls[i].state = "resolved"
          /\ calls' = [calls EXCEPT ![c] = Resolve(calls[c], calls[c].balancer)]
    /\ UNCHANGED << others, options, config, debugPortCounter, execArgv, actors,
                    workers, proc, log, boot, fs >>

(***************************************************************************)
(* createForkedActor                                                       *)
(***************************************************************************)
DebugArgsBefore(argv, i) == Cardinality({ j \in 1..(i - 1) : argv[j].debugBrk })

\* (variant) every worker gets the parent's port plus one.
ChildExecArgvNoCounter(argv, counter) ==
    [i \in 1..Len(argv) |->
        IF argv[i].debugBrk THEN DebugBrk(argv[i].port + 1) ELSE argv[i]]

\* The execArgv a worker is forked with: every --debug-brk=<port> argument
\* becomes port + debugPortCounter++, other arguments pass unchanged.
ChildExecArgv(argv, counter) ==
    [i \in 1..Len(argv) |->
        IF argv[i].debugBrk
        THEN DebugBrk(argv[i].port + counter + DebugArgsBefore(argv, i))
        ELSE argv[i]]

DebugArgs(argv) == Cardinality({ j \in 1..Len(argv) : argv[j].debugBrk })

\* A child process: state is "running", "spawnfail" (it could not be
\* spawned), "exited" (it ended by itself) or "killed".
Worker(c, state, argv) ==
    [ call |-> c, state |-> state, execArgv |-> argv,
      killCalled |-> FALSE,    \* workerProcess.kill() was called
      errorEmitted |-> FALSE ] \* the once('error') listener has run

\* createForkedActor's continuation: fork the worker, queue the create-actor
\* frame, and register the error listener and the SIGINT, SIGTERM and exit
\* hooks. Whether the worker could be spawned is the environment's choice.
RunForked(c, spawned) ==
    /\ Running
    /\ calls[c].kind = "forked"
    /\ ~calls[c].started
    /\ workers' = Append(workers,
           Worker(c, IF spawned THEN "running" ELSE "spawnfail",
                  ChildExecArgv(execArgv, debugPortCounter)))
    /\ debugPortCounter' = debugPortCounter + DebugArgs(execArgv)
    /\ calls' = [calls EXCEPT ![c].started = TRUE,
                              ![c].worker = Len(workers) + 1]
    /\ UNCHANGED << others, options, config, execArgv, actors, proc, log, boot, fs >>

\* The callback of workerProcess.send(createMsg, cb): an error rejects, and
\* otherwise the 'message' listener is registered. Sending fails when the
\* worker is not there to receive.
SendCallback(c) ==
    /\ Running
    /\ calls[c].kind = "forked"
    /\ calls[c].started
    /\ ~calls[c].sendDone
    /\ calls' = [calls EXCEPT ![c] =
           IF workers[calls[c].worker].state = "running"
           THEN [calls[c] EXCEPT !.sendDone = TRUE, !.listening = TRUE]
           ELSE Reject([calls[c] EXCEPT !.sendDone = TRUE], "send failed")]
    /\ UNCHANGED << others, options, config, debugPortCounter, execArgv, actors,
                    workers, proc, log, boot, fs >>

\* How the 'message' listener reads a frame: msg.error first, then the type
\* and body.id.
Reply(f) ==
    IF f.error # "" THEN "error"
    ELSE IF f.type # "actor-created" \/ f.id = 0 THEN "unexpected"
    ELSE "created"

\* (variant) workerProcess.on('message', ...): the listener stays.
ListensAfterEveryMessage == TRUE

\* workerProcess.once('message', ...): the listener is removed when it runs.
ListensAfterMessage == FALSE

\* The 'message' listener on one frame: the new call record and the actors.
OnMessage(c, f) ==
    LET heard == [calls[c] EXCEPT
                    !.listening = ListensAfterMessage,
                    !.frame = IF @ = NoFrame THEN f ELSE @]
        n == Len(actors) + 1
    IN  CASE Reply(f) = "error" ->
               [ call |-> Reject(heard, f.error), actors |-> actors ]
          [] Reply(f) = "unexpected" ->
               [ call |-> Reject(heard, "Unexpected response"), actors |-> actors ]
          [] OTHER ->
               [ call |-> Resolve([heard EXCEPT !.actor = n], n),
                 actors |-> Append(actors,
                     Actor("forked-parent", calls[c].parent, calls[c].name,
                           << "remote", f.id >>, c, calls[c].worker, 0)) ]

\* The worker sends a frame. It reaches the 'message' listener when one is
\* registered and is dropped otherwise.
WorkerMessage(w, f) ==
    /\ Running
    /\ workers[w].state = "running"
    /\ LET c == workers[w].call
       IN  IF calls[c].listening
           THEN /\ calls' = [calls EXCEPT ![c] = OnMessage(c, f).call]
                /\ actors' = OnMessage(c, f).actors
           ELSE UNCHANGED << calls, actors >>
    /\ UNCHANGED << others, options, config, debugPortCounter, execArgv, workers, proc,
                    log, boot, fs >>

\* workerProcess.once('error', ...): emitted when the worker could not be
\* spawned, or later when a message of the created actor cannot be sent.
WorkerError(w) ==
    /\ Running
    /\ ~workers[w].errorEmitted
    /\ workers[w].state = "spawnfail" \/ calls[workers[w].call].actor # 0
    /\ workers' = [workers EXCEPT ![w].errorEmitted = TRUE]
    /\ LET c == workers[w].call
       IN  calls' = [calls EXCEPT ![c] =
               IF calls[c].actor = 0
               THEN Reject(calls[c], "Failed to fork")
               ELSE calls[c]]
    /\ UNCHANGED << others, options, config, debugPortCounter, execArgv, actors, proc,
                    log, boot, fs >>

\* The worker ends by itself (a crash, or its own decision to terminate)
\* while the parent process runs.
WorkerExit(w) ==
    /\ Running
    /\ workers[w].state = "running"
    /\ workers' = [workers EXCEPT ![w].state = "exited"]
    /\ UNCHANGED << others, options, config, debugPortCounter, execArgv, actors, calls,
                    proc, log, boot, fs >>

(***************************************************************************)
(* Process exit                                                            *)
(***************************************************************************)
\* (variant) the exit hook kills only a worker whose actor was not created.
KillsOnExitUncreated(call) == call.actor = 0

\* The exit hook's test: if (actor).
KillsOnExit(call) == call.actor # 0

\* All process.once('exit') hooks: each kills its worker when its actor was
\* created.
ExitHooks(ws) ==
    [w \in 1..Len(ws) |->
        IF KillsOnExit(calls[ws[w].call])
        THEN [ws[w] EXCEPT !.killCalled = TRUE,
                           !.state = IF @ = "running" THEN "killed" ELSE @]
        ELSE ws[w]]

RECURSIVE ExitLog(_)
ExitLog(n) ==
    IF n = 0 THEN << >>
    ELSE ExitLog(n - 1) \o
         (IF KillsOnExit(calls[workers[n].call])
          THEN << LogEntry("debug", << "Process exiting, killing forked actor" >>) >>
          ELSE << >>)

\* The hooks are registered by createForkedActor's continuation.
HooksInstalled == \E c \in 1..Len(calls) : calls[c].kind = "forked" /\ calls[c].started

\* The process exits: the 'exit' hooks run.
ProcessExit ==
    /\ Running
    /\ proc' = [state |-> "exited", cause |-> "exit"]
    /\ workers' = ExitHooks(workers)
    /\ log' = log \o ExitLog(Len(workers))
    /\ UNCHANGED << others, options, config, debugPortCounter, execArgv, actors, calls,
                    boot, fs >>

\* SIGINT or SIGTERM arrives. With the once(sig) hook installed the signal is
\* logged and process.exit(0) runs the 'exit' hooks; without it the process
\* is terminated by the default disposition.
Signal(sig) ==
    /\ Running
    /\ proc' = [state |-> "exited", cause |-> sig]
    /\ IF HooksInstalled
       THEN /\ workers' = ExitHooks(workers)
            /\ log' = log \o << LogEntry("info", << "Received", sig, "exiting" >>) >>
                          \o ExitLog(Len(workers))
       ELSE UNCHANGED << workers, log >>
    /\ UNCHANGED << others, options, config, debugPortCounter, execArgv, actors, calls,
                    boot, fs >>

(***************************************************************************)
(* _loadConfiguration                                                      *)
(***************************************************************************)
\* options.config: absent, an object, a path string, or any other value.
ConfigInput(kind, value) == [kind |-> kind, value |-> value]
ConfigInputs ==
    { ConfigInput("absent", NoConfig),
      ConfigInput("object", CfgClusters),
      ConfigInput("path", NoConfig),
      ConfigInput("other", NoConfig) }

\* A file is "missing", holds text that is no JSON ("badjson"), or is "good".
FileStates == { "missing", "badjson", "good" }
\* What JSON.parse yields for the good file at the given and the default path.
GivenFileConfig == CfgFooBogus
DefaultFileConfig == CfgClusters

\* The level the loader reports a failed read or parse at.
FailureLevel == "info"

\* The synchronous part of _loadConfiguration(config): the next load state,
\* this.config and the log.
LoadDispatch(input) ==
    IF input.kind = "object"
    THEN [ load |-> "done", config |-> input.value,
           log |-> IF options.forked # 0 THEN log
                   ELSE Append(log, LogEntry("info",
                            << "Using programmatic actor configuration." >>)) ]
    ELSE IF input.kind = "path"
    THEN [ load |-> "given", config |-> config, log |-> log ]
    ELSE [ load |-> "default", config |-> config, log |-> log ]

\* fs.readFileAsync(config).then(parse).catch(log and _loadConfiguration()).
AfterGivenRead(file) ==
    IF file = "good"
    THEN [ load |-> "done", config |-> GivenFileConfig,
           log |-> Append(log, LogEntry("info",
                       << "Using actor configuration file", "given" >>)) ]
    ELSE [ load |-> "default", config |-> config,
           log |-> Append(log, LogEntry(FailureLevel,
                       << "Failed to load actor configuration file", "given" >>)) ]

\* (variant) the read of the default path without its catch.
AfterDefaultReadNoCatch(file) ==
    IF file = "good"
    THEN [ load |-> "done", config |-> DefaultFileConfig,
           log |-> Append(log, LogEntry("info",
                       << "Using actor configuration file", "default" >>)) ]
    ELSE [ load |-> "failed", config |-> config, log |-> log ]

\* fs.readFileAsync(defaultPath).then(parse).catch(log).
AfterDefaultRead(file) ==
    IF file = "good"
    THEN [ load |-> "done", config |-> DefaultFileConfig,
           log |-> Append(log, LogEntry("info",
                       << "Using actor configuration file", "default" >>)) ]
    ELSE [ load |-> "done", config |-> config,
           log |-> Append(log, LogEntry(FailureLevel,
                       << "Failed to load actor configuration file", "default" >>)) ]

(***************************************************************************)
(* The constructor and the ready promise                                   *)
(***************************************************************************)
\* The constructor's options. context is "none" (no initialize function),
\* "sync" (initialize returns a plain value) or "async" (it returns a
\* promise); forked is options.forked.id, 0 when options.forked is absent.
Options(hasRoot, forked, context, cfg) ==
    [ hasRoot |-> hasRoot, root |-> FooClass, forked |-> forked,
      context |-> context, config |-> cfg ]

BootOptions ==
    { Options(r, f, c, i) :
        r \in BOOLEAN, f \in {0, 9}, c \in {"none", "sync", "async"},
        i \in ConfigInputs }

\* boot.pc is the step rootActorPromise waits for: "ctx", "root", "load",
\* "init", or the promise is "ready" (fulfilled) or "rejected".
\* boot.ctx is the result of context.initialize(); boot.trace lists the steps
\* in the order they completed; boot.root is the actor the chain carries;
\* boot.load is the state of _loadConfiguration.
Boot(pc, ctx, trace, root, load) ==
    [ pc |-> pc, ctx |-> ctx, trace |-> trace, root |-> root, load |-> load ]

\* The state the constructor leaves for the given options. Without
\* options.root the RootActor is constructed by the constructor itself, as
\* the argument of contextPromise.return(...).
Constructed(o) ==
    LET ctx == CASE o.context = "none" -> "none"
                 [] o.context = "sync" -> "resolved"
                 [] OTHER -> "pending"
        t0 == IF o.context = "sync" THEN << "ctx" >> ELSE << >>
    IN  IF o.hasRoot
        THEN [ actors |-> << >>, boot |-> Boot("ctx", ctx, t0, 0, "idle") ]
        ELSE [ actors |-> << Actor("root", 0, << >>, generateActorId(1), 0, 0, 0) >>,
               boot |-> Boot("ctx", ctx, Append(t0, "root"), 1, "idle") ]

\* The promise returned by context.initialize() settles.
ContextSettles(ok) ==
    /\ boot.ctx = "pending"
    /\ boot' = IF ok
               THEN [boot EXCEPT !.ctx = "resolved", !.trace = Append(@, "ctx")]
               ELSE [boot EXCEPT !.ctx = "rejected"]
    /\ UNCHANGED << others, options, config, debugPortCounter, execArgv, actors, calls,
                    workers, proc, log, fs >>

\* (variant) the custom root is asked of createActor once a programmatic
\* configuration is in this.config.
AfterContextConfigured ==
    /\ boot.pc = "ctx"
    /\ boot.ctx # "pending"
    /\ IF boot.ctx = "rejected"
       THEN /\ boot' = [boot EXCEPT !.pc = "rejected"]
            /\ UNCHANGED calls
       ELSE IF options.hasRoot
       THEN LET cfg == IF options.config.kind = "object"
                       THEN options.config.value ELSE config
                call == createActor(options.root, 0, [mode |-> "in-memory"], 0)
                opts == EffectiveOptions(cfg, call.name, call.given)
            IN  /\ boot' = [boot EXCEPT !.pc = "root"]
                /\ calls' = Append(calls,
                       [call EXCEPT !.opts = opts, !.kind = Placement(opts)])
       ELSE /\ boot' = [boot EXCEPT !.pc = "load"]
            /\ UNCHANGED calls
    /\ UNCHANGED << others, options, config, debugPortCounter, execArgv, actors,
                    workers, proc, log, fs >>

\* contextPromise has settled: a rejection rejects the chain; otherwise the
\* custom root is asked of createActor, or the chain goes on with the
\* RootActor the constructor made.
AfterContext ==
    /\ boot.pc = "ctx"
    /\ boot.ctx # "pending"
    /\ IF boot.ctx = "rejected"
       THEN /\ boot' = [boot EXCEPT !.pc = "rejected"]
            /\ UNCHANGED calls
       ELSE IF options.hasRoot
       THEN /\ boot' = [boot EXCEPT !.pc = "root"]
            /\ calls' = Append(calls,
                   createActor(options.root, 0, [mode |-> "in-memory"], 0))
       ELSE /\ boot' = [boot EXCEPT !.pc = "load"]
            /\ UNCHANGED calls
    /\ UNCHANGED << others, options, config, debugPortCounter, execArgv, actors,
                    workers, proc, log, fs >>

\* The root's createActor promise has settled. With options.forked the root
\* is wrapped: a ForkedActorChild whose parent is an ActorStub of id
\* options.forked.id and whose inner actor is the root just created.
RootCreated ==
    /\ boot.pc = "root"
    /\ calls[1].state # "pending"
    /\ IF calls[1].state = "rejected"
       THEN /\ boot' = [boot EXCEPT !.pc = "rejected"]
            /\ UNCHANGED actors
       ELSE IF options.forked # 0
       THEN LET stub == Len(actors) + 1
                child == Len(actors) + 2
            IN  /\ actors' = actors \o
                       << Actor("stub", 0, << >>, << "remote", options.forked >>, 0, 0, 0),
                          Actor("forked-child", stub, << >>,
                                actors[calls[1].value].id, 0, 0, calls[1].value) >>
                /\ boot' = [boot EXCEPT !.pc = "load", !.root = child,
                                        !.trace = Append(@, "root")]
       ELSE /\ boot' = [boot EXCEPT !.pc = "load", !.root = calls[1].value,
                                    !.trace = Append(@, "root")]
            /\ UNCHANGED actors
    /\ UNCHANGED << others, options, config, debugPortCounter, execArgv, calls, workers,
                    proc, log, fs >>

\* .tap(() => this._loadConfiguration(options.config)): the synchronous part.
LoadConfiguration ==
    /\ boot.pc = "load"
    /\ boot.load = "idle"
    /\ LET r == LoadDispatch(options.config)
       IN  /\ boot' = [boot EXCEPT !.load = r.load]
           /\ config' = r.config
           /\ log' = r.log
    /\ UNCHANGED << others, options, debugPortCounter, execArgv, actors, calls, workers,
                    proc, fs >>

\* The read of the given path has settled.
ReadGiven ==
    /\ boot.load = "given"
    /\ LET r == AfterGivenRead(fs.given)
       IN  /\ boot' = [boot EXCEPT !.load = r.load]
           /\ config' = r.config
           /\ log' = r.log
    /\ UNCHANGED << others, options, debugPortCounter, execArgv, actors, calls, workers,
                    proc, fs >>

\* The read of <appRoot>/actors.json has settled.
ReadDefault ==
    /\ boot.load = "default"
    /\ LET r == AfterDefaultRead(fs.default)
       IN  /\ boot' = [boot EXCEPT !.load = r.load]
           /\ config' = r.config
           /\ log' = r.log
    /\ UNCHANGED << others, options, debugPortCounter, execArgv, actors, calls, workers,
                    proc, fs >>

\* The promise of _loadConfiguration has settled: the chain calls
\* actor.initialize(), or is rejected when the load was.
ConfigLoaded ==
    /\ boot.pc = "load"
    /\ boot.load \in {"done", "failed"}
    /\ boot' = IF boot.load = "failed"
               THEN [boot EXCEPT !.pc = "rejected"]
               ELSE [boot EXCEPT !.pc = "init", !.trace = Append(@, "config")]
    /\ UNCHANGED << others, options, config, debugPortCounter, execArgv, actors, calls,
                    workers, proc, log, fs >>

\* The promise of root.initialize() has settled.
RootInitialized(ok) ==
    /\ boot.pc = "init"
    /\ boot' = IF ok
               THEN [boot EXCEPT !.pc = "ready", !.trace = Append(@, "init")]
               ELSE [boot EXCEPT !.pc = "rejected"]
    /\ UNCHANGED << others, options, config, debugPortCounter, execArgv, actors, calls,
                    workers, proc, log, fs >>

(***************************************************************************)
(* ActorSystem.default()                                                   *)
(***************************************************************************)
\* calls of default() in one run
MaxDefaultCalls == 2

\* var defaultSystem; when the module is loaded.
NoDefault == defaultSystem = 0 /\ systems = 0 /\ returned = << >>

\* static default(): if (defaultSystem) defaultSystem = new ActorSystem();
\* return defaultSystem.
Default ==
    /\ Running
    /\ Len(returned) < MaxDefaultCalls
    /\ IF defaultSystem # 0
       THEN /\ systems' = systems + 1
            /\ defaultSystem' = systems + 1
       ELSE UNCHANGED << defaultSystem, systems >>
    /\ returned' = Append(returned, defaultSystem')
    /\ UNCHANGED exceptDefault

(***************************************************************************)
(* LoggerConfiguration and LogWrapper                                      *)
(***************************************************************************)
\* A JavaScript value that is a number or undefined.
Val(n) == [def |-> TRUE, n |-> n]
Undefined == [def |-> FALSE, n |-> 0]
Truthy(v) == v.def /\ v.n # 0
\* a || b
Or(a, b) == IF Truthy(a) THEN a ELSE b

\* The LogLevel enumeration comes from a library outside the sources. The
\* tests level >= LogLevel.Debug .. level >= LogLevel.Warn and silent() fix
\* its order, Silent < Error < Warn < Info < Debug; whether the numbering
\* starts at 0 (a plain enum) or later is left open.
LevelNames == << "Silent", "Error", "Warn", "Info", "Debug" >>
Enumeration(first) ==
    [name \in { LevelNames[i] : i \in 1..Len(LevelNames) } |->
        first + (CHOOSE i \in 1..Len(LevelNames) : LevelNames[i] = name) - 1]
Enumerations == { Enumeration(first) : first \in 0..1 }

\* A value assigned to current: undefined, or an object whose categories
\* property is a map from category names to levels ("map"), null ("null"),
\* missing ("missing") or a string ("string").
Dict(defined, kind, categories) ==
    [defined |-> defined, kind |-> kind, categories |-> categories]
AbsentDict == Dict(FALSE, "missing", EmptyObj)
CategoryNames == {"Default", "Foo"}
CategoryMaps ==
    UNION { [D -> {"Silent", "Debug"}] : D \in SUBSET CategoryNames }
Dicts ==
    { Dict(TRUE, "map", m) : m \in CategoryMaps }
        \cup { AbsentDict, Dict(TRUE, "null", EmptyObj),
               Dict(TRUE, "missing", EmptyObj), Dict(TRUE, "string", EmptyObj) }

\* typeof x === 'object' holds for an object and for null.
TypeofObject(kind) == kind \in {"map", "null"}

\* !this._current || typeof this._current.categories !== 'object'
NeedsDefault(value) == ~value.defined \/ ~TypeofObject(value.kind)

\* _.extend(this._current, { categories: { Default: LogLevel.Info } })
DefaultDict == Dict(TRUE, "map", [c \in {"Default"} |-> "Info"])

\* What the setter of current stores for a value.
Stored(value) == IF NeedsDefault(value) THEN DefaultDict ELSE value

\* getCategoryLevel(category): categories[category] || categories.Default.
\* Reading a property of null throws a TypeError.
Lookup(dict, category) ==
    IF category \in DOMAIN dict.categories
    THEN Val(LogLevel[dict.categories[category]])
    ELSE Undefined
getCategoryLevel(dict, category) ==
    IF ~dict.defined \/ dict.kind # "map"
    THEN [threw |-> TRUE, value |-> Undefined]
    ELSE [threw |-> FALSE,
          value |-> Or(Lookup(dict, category), Lookup(dict, "Default"))]

\* getCategoryLevel(this.category) || getCategoryLevel(DefaultCategory)
\*     || this.level
NextLevel(dict, category, level) ==
    IF getCategoryLevel(dict, category).threw
    THEN [threw |-> TRUE, level |-> level]
    ELSE [threw |-> FALSE,
          level |-> Or(Or(getCategoryLevel(dict, category).value,
                          getCategoryLevel(dict, "Default").value),
                       Val(level)).n]

\* assignments to current, assignments to level and logging calls in one run
MaxAssignments == 2
MaxLevelSets == 1
MaxLogCalls == 2

\* The listeners of 'configChange' are told apart by identity: the method
\* this.updateLogLevel and the function updateLogLevel.bind(this) are two.
UpdateLogLevel == "updateLogLevel"
BoundUpdateLogLevel == "updateLogLevel.bind(this)"
(* on(event, listener) and off(event, listener) of the event emitter *)
on(listeners, listener) == Append(listeners, listener)
off(listeners, listener) == SelectSeq(listeners, LAMBDA l : l # listener)

\* A LoggerConfiguration. emitted counts the configChange events; threw
\* tells that a call of getCategoryLevel ended with a TypeError.
Configuration(exists, current, listeners, emitted, threw) ==
    [ exists |-> exists, current |-> current, listeners |-> listeners,
      emitted |-> emitted, threw |-> threw ]
NoConfiguration == Configuration(FALSE, AbsentDict, << >>, 0, FALSE)

\* A LogWrapper. configured tells whether it has a _configuration; sets
\* counts the client's assignments to level.
LogWrapper(exists, level, category, configured, sets) ==
    [ exists |-> exists, level |-> level, category |-> category,
      configured |-> configured, sets |-> sets ]
NoLogger == LogWrapper(FALSE, 0, "Default", FALSE, 0)

\* No configuration file is in use.
NoFiles ==
    /\ files = << >>
    /\ watching = {}
    /\ notified = {}
    /\ reloads = << >>
    /\ changes = 0

NoProcesses == processes = << >>

NoLogging ==
    /\ LogLevel = Enumeration(0)
    /\ configuration = NoConfiguration
    /\ logger = NoLogger
    /\ sink = << >>
    /\ NoFiles
    /\ NoProcesses

\* set level(value): store it, and with a configuration take
\* this.updateLogLevel off 'configChange'.
SetLevel(lg, cfgn, value) ==
    [ logger |-> [lg EXCEPT !.level = value],
      configuration |-> IF lg.configured
                        THEN [cfgn EXCEPT !.listeners = off(@, UpdateLogLevel)]
                        ELSE cfgn ]

\* updateLogLevel(configuration), the listener the constructor registered.
updateLogLevel(lg, cfgn) ==
    LET r == NextLevel(cfgn.current, lg.category, lg.level)
    IN  IF r.threw
        THEN [ logger |-> lg, configuration |-> [cfgn EXCEPT !.threw = TRUE] ]
        ELSE SetLevel(lg, cfgn, r.level)

\* set current(value): store, default invalid data, emit 'configChange' to
\* the listeners registered at that time.
SetCurrent(lg, cfgn, value) ==
    LET stored == [cfgn EXCEPT !.current = Stored(value), !.emitted = @ + 1]
    IN  IF \E i \in 1..Len(cfgn.listeners) : cfgn.listeners[i] = BoundUpdateLogLevel
        THEN updateLogLevel(lg, stored)
        ELSE [ logger |-> lg, configuration |-> stored ]

\* createConfig(Implementation, undefined, dict): the constructor assigns its
\* (absent) argument to current, then createConfig assigns the dict.
CreateConfig(dict) ==
    /\ ~configuration.exists
    /\ LET made == SetCurrent(logger, Configuration(TRUE, AbsentDict, << >>, 0, FALSE),
                              AbsentDict).configuration
       IN  configuration' = SetCurrent(logger, made, dict).configuration
    /\ UNCHANGED << LogLevel, logger, sink >>
    /\ UNCHANGED exceptLog

\* new LogWrapper(level, category, configuration): with a configuration the
\* level is taken from it and updateLogLevel.bind(this) is registered. A
\* TypeError in getCategoryLevel ends the constructor: no logger is made.
NewLogWrapper(level, category, withConfiguration) ==
    /\ ~logger.exists
    /\ withConfiguration => configuration.exists
    /\ IF ~withConfiguration
       THEN /\ logger' = LogWrapper(TRUE, LogLevel[level], category, FALSE, 0)
            /\ UNCHANGED configuration
       ELSE LET lg == LogWrapper(TRUE, LogLevel[level], category, TRUE, 0)
                r == NextLevel(configuration.current, category, lg.level)
                set == SetLevel(lg, configuration, r.level)
            IN  IF r.threw
                THEN /\ configuration' = [configuration EXCEPT !.threw = TRUE]
                     /\ UNCHANGED logger
                ELSE /\ logger' = set.logger
                     /\ configuration' =
                            [set.configuration EXCEPT
                                !.listeners = on(@, BoundUpdateLogLevel)]
    /\ UNCHANGED << LogLevel, sink >>
    /\ UNCHANGED exceptLog

\* silent(): new LogWrapper(), then level = LogLevel.Silent.
silent ==
    /\ ~logger.exists
    /\ logger' = SetLevel(LogWrapper(TRUE, LogLevel["Info"], "Default", FALSE, 0),
                          configuration, LogLevel["Silent"]).logger
    /\ UNCHANGED << LogLevel, configuration, sink >>
    /\ UNCHANGED exceptLog

\* A client assigns configuration.current.
AssignCurrent(dict) ==
    /\ configuration.exists
    /\ configuration.emitted < MaxAssignments + 2
    /\ logger' = SetCurrent(logger, configuration, dict).logger
    /\ configuration' = SetCurrent(logger, configuration, dict).configuration
    /\ UNCHANGED << LogLevel, sink >>
    /\ UNCHANGED exceptLog

\* A client assigns logger.level.
AssignLevel(level) ==
    /\ logger.exists
    /\ logger.sets < MaxLevelSets
    /\ logger' = [SetLevel(logger, configuration, LogLevel[level]).logger
                     EXCEPT !.sets = @ + 1]
    /\ configuration' = SetLevel(logger, configuration, LogLevel[level]).configuration
    /\ UNCHANGED << LogLevel, sink >>
    /\ UNCHANGED exceptLog

\* The severity a method's test compares the level with, and the method of
\* the underlying logger it forwards to; error has no test.
Methods == {"debug", "log", "info", "warn", "error"}
\* (variant) the tests written with > in place of >=.
ForwardsAbove(method, level) ==
    CASE method = "debug" -> level > LogLevel["Debug"]
      [] method \in {"log", "info"} -> level > LogLevel["Info"]
      [] method = "warn" -> level > LogLevel["Warn"]
      [] OTHER -> TRUE

Forwards(method, level) ==
    CASE method = "debug" -> level >= LogLevel["Debug"]
      [] method \in {"log", "info"} -> level >= LogLevel["Info"]
      [] method = "warn" -> level >= LogLevel["Warn"]
      [] OTHER -> TRUE
SinkMethod(method) == IF method = "log" THEN "info" ELSE method

\* logger.debug / log / info / warn / error (message)
LogCall(method) ==
    /\ logger.exists
    /\ Len(sink) < MaxLogCalls
    /\ sink' = IF Forwards(method, logger.level)
               THEN Append(sink, [via |-> method, method |-> SinkMethod(method)])
               ELSE sink
    /\ UNCHANGED << LogLevel, configuration, logger >>
    /\ UNCHANGED exceptLog

(***************************************************************************)
(* createConfigFromFiles                                                   *)
(***************************************************************************)
\* changes of the configuration files in one run
MaxChanges == 2
\* processes of one hierarchy, the first one included
MaxProcesses == 5

\* paths, in the order given to createConfigFromFiles; files[i] is the text
\* of the i-th.
Paths == 1..2

\* What a file holds: the JSON text of a dict, or text that does not parse.
BadText == Dict(FALSE, "string", EmptyObj)
Texts ==
    { Dict(TRUE, "map", [c \in {"Foo"} |-> "Silent"]),
      Dict(TRUE, "map", [c \in {"Foo"} |-> "Debug"]),
      Dict(TRUE, "map", [c \in {"Default"} |-> "Debug"]),
      BadText }

\* JSON.parse of a file's text, inside try: a failure gives no config.
Parses(text) == text # BadText

\* The paths of configs that hold the key, and the first of them.
Holding(configs, good, key) == { i \in good : key \in DOMAIN configs[i].categories }
First(S) == CHOOSE i \in S : \A j \in S : i <= j

\* _.compact(configs).reduce((memo, cur) => deepExtend(cur, memo), {}): each
\* config is extended by what was merged before it, so for a key that
\* several files hold the first path's value stays. configs[i] is what was
\* read for the i-th path, good the paths whose read and parse succeeded.
Merged(configs, good) ==
    IF good = {} THEN Dict(TRUE, "missing", EmptyObj)
    ELSE Dict(TRUE, "map",
              [key \in UNION { DOMAIN configs[i].categories : i \in good } |->
                  configs[First(Holding(configs, good, key))].categories[key]])

\* One run of the watch callback: by is the path whose watcher called it,
\* read[i] the text read for the i-th path (pending until the read
\* completes), done tells that current was assigned.
PendingRead == Dict(FALSE, "pending", EmptyObj)
Reload(by, read, done) == [by |-> by, read |-> read, done |-> done]

\* The state createConfigFromFiles returns with: the configuration built
\* from the files that parse, and a watcher on every path.
Loaded(texts) ==
    SetCurrent(NoLogger,
               SetCurrent(NoLogger, Configuration(TRUE, AbsentDict, << >>, 0, FALSE),
                          AbsentDict).configuration,
               Merged(texts, { i \in Paths : Parses(texts[i]) })).configuration

\* The warnings of the initial load: log.warn('Unable to read logger
\* configuration, path=...') for every path whose text did not parse, in the
\* order of the paths.
LoadWarnings(texts) ==
    LET bad == SelectSeq([i \in Paths |-> i], LAMBDA i : ~Parses(texts[i]))
    IN  [k \in 1..Len(bad) |-> [via |-> "warn", method |-> "warn", path |-> bad[k]]]

\* A file is written.
FileChange(path, text) ==
    /\ changes < MaxChanges
    /\ text # files[path]
    /\ files' = [files EXCEPT ![path] = text]
    /\ changes' = changes + 1
    /\ notified' = IF path \in watching THEN notified \cup {path} ELSE notified
    /\ UNCHANGED << watching, reloads >>
    /\ UNCHANGED << logVars, exceptFiles >>

\* The watcher of a path calls the callback, which starts to read every path.
WatchCallback(path) ==
    /\ path \in notified
    /\ notified' = notified \ {path}
    /\ reloads' = IF path \in watching
                  THEN Append(reloads, Reload(path, [i \in Paths |-> PendingRead], FALSE))
                  ELSE reloads
    /\ UNCHANGED << files, watching, changes >>
    /\ UNCHANGED << logVars, exceptFiles >>

\* catch: cancel() is the cancel function of the watcher that called the
\* callback.
CancelledOnFailure(r) == { reloads[r].by }

\* fileLoader.readFile(path0) of a run completes with the file's text of
\* that moment; a text that does not parse is warned about and the watcher
\* is cancelled.
ReadCompletes(r, path0) ==
    /\ reloads[r].read[path0] = PendingRead
    /\ reloads' = [reloads EXCEPT ![r].read[path0] = files[path0]]
    /\ IF Parses(files[path0])
       THEN UNCHANGED << watching, sink >>
       ELSE /\ watching' = watching \ CancelledOnFailure(r)
            /\ sink' = Append(sink, [via |-> "warn", method |-> "warn", path |-> path0])
    /\ UNCHANGED << files, notified, changes, LogLevel, configuration, logger >>
    /\ UNCHANGED exceptFiles

\* Promise.all has resolved: the configs are merged and assigned to current.
ReloadCompletes(r) ==
    /\ ~reloads[r].done
    /\ \A i \in Paths : reloads[r].read[i] # PendingRead
    /\ reloads' = [reloads EXCEPT ![r].done = TRUE]
    /\ LET data == Merged(reloads[r].read, { i \in Paths : Parses(reloads[r].read[i]) })
           set == SetCurrent(logger, configuration, data)
       IN  configuration' = set.configuration /\ logger' = set.logger
    /\ UNCHANGED << files, watching, notified, changes, LogLevel, sink >>
    /\ UNCHANGED exceptFiles

(***************************************************************************)
(* Specifications                                                          *)
(***************************************************************************)
\* A system constructed without options.root whose ready promise has
\* fulfilled, with the configuration it has loaded.
Init ==
    /\ config \in Configs
    /\ options = Options(FALSE, 0, "none",
                     IF config.defined THEN ConfigInput("object", config)
                     ELSE ConfigInput("absent", NoConfig))
    /\ debugPortCounter = 1
    /\ execArgv = ParentExecArgv
    /\ actors = Constructed(options).actors
    /\ calls = << >>
    /\ workers = << >>
    /\ proc = [state |-> "running", cause |-> "none"]
    /\ log = << >>
    /\ boot = Boot("ready", "none", << "root", "config", "init" >>, 1, "done")
    /\ fs = [given |-> "missing", default |-> "missing"]
    /\ fn = NoCall
    /\ NoDefault
    /\ NoLogging

Next ==
    \/ \E r \in Requests, p \in 1..Len(actors) :
            ClientCreateActor(r.beh, p, r.given)
    \/ \E c \in 1..Len(calls) : RunInMemory(c)
    \/ \E c \in 1..Len(calls) : RunCluster(c)
    \/ \E c \in 1..Len(calls) : SettleCluster(c)
    \/ \E c \in 1..Len(calls), spawned \in BOOLEAN : RunForked(c, spawned)
    \/ \E c \in 1..Len(calls) : SendCallback(c)
    \/ \E w \in 1..Len(workers), f \in Frames : WorkerMessage(w, f)
    \/ \E w \in 1..Len(workers) : WorkerError(w)
    \/ \E w \in 1..Len(workers) : WorkerExit(w)
    \/ ProcessExit
    \/ \E sig \in {"SIGINT", "SIGTERM"} : Signal(sig)
    \/ Default

Spec == Init /\ [][Next]_vars

\* The state right after new ActorSystem(options), for every option set and
\* every state of the two configuration files.
BootInit ==
    /\ options \in BootOptions
    /\ config = NoConfig
    /\ debugPortCounter = 1
    /\ execArgv = << >>
    /\ actors = Constructed(options).actors
    /\ calls = << >>
    /\ workers = << >>
    /\ proc = [state |-> "running", cause |-> "none"]
    /\ log = << >>
    /\ boot = Constructed(options).boot
    /\ fs \in [given : FileStates, default : FileStates]
    /\ fn = NoCall
    /\ NoDefault
    /\ NoLogging

BootNext ==
    \/ \E ok \in BOOLEAN : ContextSettles(ok)
    \/ AfterContext
    \/ \E c \in 1..Len(calls) : RunInMemory(c)
    \/ RootCreated
    \/ LoadConfiguration
    \/ ReadGiven
    \/ ReadDefault
    \/ ConfigLoaded
    \/ \E ok \in BOOLEAN : RootInitialized(ok)

BootSpec == BootInit /\ [][BootNext]_vars

(***************************************************************************)
(* Helper methods, each applied to every argument of a bounded set         *)
(***************************************************************************)
\* A system that is constructed and otherwise left alone.
SysIdle ==
    /\ options = Options(FALSE, 0, "none", ConfigInput("absent", NoConfig))
    /\ config = NoConfig
    /\ debugPortCounter = 1
    /\ execArgv = << >>
    /\ actors = Constructed(options).actors
    /\ calls = << >>
    /\ workers = << >>
    /\ proc = [state |-> "running", cause |-> "none"]
    /\ log = << >>
    /\ boot = Boot("ready", "none", << "root", "config", "init" >>, 1, "done")
    /\ fs = [given |-> "missing", default |-> "missing"]
    /\ NoDefault

\* A configuration with an entry under every key a name of NameBehaviours
\* may be looked up by; the entry tells its key.
KeyProbe == Config([k \in {foo, bar, Foo, Bar} |-> [key |-> k]])

\* var actorName = this._actorName(Behaviour)
ActorNameReturns ==
    /\ fn.method = "_actorName"
    /\ ~fn.done
    /\ fn' = [fn EXCEPT !.done = TRUE, !.ret = _actorName(fn.arg)]
    /\ UNCHANGED exceptFn

\* createActor goes on with the name: the options it determines under
\* KeyProbe show which entry was read, if any.
ConfigLookup ==
    /\ fn.method = "_actorName"
    /\ fn.done
    /\ fn' = HelperCall("createActor", fn.arg, TRUE,
                        EffectiveOptions(KeyProbe, fn.ret, EmptyObj))
    /\ UNCHANGED exceptFn

NameInit ==
    /\ SysIdle
    /\ \E B \in NameBehaviours : fn = HelperCall("_actorName", B, FALSE, NoName)
    /\ NoLogging

NameNext == ActorNameReturns \/ ConfigLookup

NameSpec == NameInit /\ [][NameNext]_vars

\* A class (or any object on a prototype chain): its name property and the
\* text toSource gives for it.
Class(name, src) == [name |-> name, src |-> src]
toSource(obj) == << obj.src >>

\* A behaviour given to _serializeBehaviour: chain lists it (last) after its
\* ancestors, root-most first, so that Object.getPrototypeOf of chain[i] is
\* chain[i - 1]; above chain[1] comes Function.prototype, whose name is "".
\* plain tells a plain data record.
Serializable(plain, chain) == [plain |-> plain, chain |-> chain]
FunctionPrototype == Class(NoName, "Function.prototype")
getPrototypeOf(chain, i) == IF i > 1 THEN chain[i - 1] ELSE FunctionPrototype

\* The longest prototype chain
MaxChain == 4

ClassChains ==
    UNION { { [i \in 1..n |-> Class(names[i], i)] : names \in [1..n -> {NoName, Foo, Bar}] } :
            n \in 1..MaxChain }

Serializables ==
    { Serializable(FALSE, ch) : ch \in ClassChains }
        \cup { Serializable(TRUE, << Class(NoName, "record") >>) }

\* (variant) the behaviour's own source comes before its base's.
RECURSIVE _serializeBehaviourDerivedFirst(_, _, _)
_serializeBehaviourDerivedFirst(plain, chain, i) ==
    IF ~plain /\ getPrototypeOf(chain, i).name # NoName
    THEN LET base == _serializeBehaviourDerivedFirst(plain, chain, i - 1)
         IN  [ src |-> toSource(chain[i]) \o base.src, calls |-> base.calls + 1 ]
    ELSE [ src |-> toSource(chain[i]), calls |-> 1 ]

\* _serializeBehaviour(chain[i]): the serialized text, and how many times the
\* method was entered to produce it.
RECURSIVE _serializeBehaviour(_, _, _)
_serializeBehaviour(plain, chain, i) ==
    IF ~plain /\ getPrototypeOf(chain, i).name # NoName
    THEN LET base == _serializeBehaviour(plain, chain, i - 1)
         IN  [ src |-> base.src \o toSource(chain[i]), calls |-> base.calls + 1 ]
    ELSE [ src |-> toSource(chain[i]), calls |-> 1 ]

SerializeReturns ==
    /\ fn.method = "_serializeBehaviour"
    /\ ~fn.done
    /\ fn' = [fn EXCEPT !.done = TRUE,
                        !.ret = _serializeBehaviour(fn.arg.plain, fn.arg.chain,
                                                    Len(fn.arg.chain))]
    /\ UNCHANGED exceptFn

SerializeInit ==
    /\ SysIdle
    /\ \E b \in Serializables :
          fn = HelperCall("_serializeBehaviour", b, FALSE, [src |-> << >>, calls |-> 0])
    /\ NoLogging

SerializeNext == SerializeReturns

SerializeSpec == SerializeInit /\ [][SerializeNext]_vars

\* A process that makes a logger, alone, over a configuration or by
\* silent(), and then uses it.
LoggerInit ==
    /\ SysIdle
    /\ fn = NoCall
    /\ LogLevel \in Enumerations
    /\ configuration = NoConfiguration
    /\ logger = NoLogger
    /\ sink = << >>
    /\ NoFiles
    /\ NoProcesses

LoggerNext ==
    \/ \E dict \in Dicts : CreateConfig(dict)
    \/ \E level \in {"Info", "Warn", "Error"}, category \in CategoryNames, c \in BOOLEAN :
            NewLogWrapper(level, category, c)
    \/ silent
    \/ \E dict \in Dicts : AssignCurrent(dict)
    \/ \E level \in {"Silent", "Debug"} : AssignLevel(level)
    \/ \E method \in Methods : LogCall(method)

LoggerSpec == LoggerInit /\ [][LoggerNext]_vars

\* The state after createConfigFromFiles(paths) has returned, for every
\* text of the files.
ReloadInit ==
    /\ SysIdle
    /\ fn = NoCall
    /\ LogLevel = Enumeration(0)
    /\ files \in [Paths -> Texts]
    /\ configuration = Loaded(files)
    /\ logger = NoLogger
    /\ sink = LoadWarnings(files)
    /\ watching = Paths
    /\ notified = {}
    /\ reloads = << >>
    /\ changes = 0
    /\ NoProcesses

ReloadNext ==
    \/ \E path \in Paths, text \in Texts : FileChange(path, text)
    \/ \E path \in Paths : WatchCallback(path)
    \/ \E r \in 1..Len(reloads), path0 \in Paths : ReadCompletes(r, path0)
    \/ \E r \in 1..Len(reloads) : ReloadCompletes(r)

ReloadSpec == ReloadInit /\ [][ReloadNext]_vars

(***************************************************************************)
(* The process hierarchy: every forked worker runs an ActorSystem of its   *)
(* own and may fork further workers                                        *)
(***************************************************************************)
\* A process: the process that forked it (0 for the first one), its
\* process.execArgv, the debugPortCounter of the ActorSystem it runs, and
\* whether it is alive.
Process(parent, argv, counter, alive) ==
    [ parent |-> parent, execArgv |-> argv, debugPortCounter |-> counter,
      alive |-> alive ]

\* The worker executable: it runs with the execArgv it was forked with and
\* constructs an ActorSystem, whose debugPortCounter starts at 1.
WorkerSystem(parent, argv) == Process(parent, argv, 1, TRUE)

Processes == 1..Len(processes)
LiveChildren(p) ==
    { q \in Processes : processes[q].parent = p /\ processes[q].alive }

\* createForkedActor in the system of process p: the worker gets p's
\* execArgv with every --debug-brk port raised by p's debugPortCounter++.
ForkWorker(p) ==
    /\ processes[p].alive
    /\ Len(processes) < MaxProcesses
    /\ processes' =
          Append([processes EXCEPT ![p].debugPortCounter =
                                      @ + DebugArgs(processes[p].execArgv)],
                 WorkerSystem(p, ChildExecArgv(processes[p].execArgv,
                                               processes[p].debugPortCounter)))
    /\ UNCHANGED exceptTree

\* A worker process that has no live worker of its own ends.
WorkerEnds(p) ==
    /\ p > 1
    /\ processes[p].alive
    /\ LiveChildren(p) = {}
    /\ processes' = [processes EXCEPT ![p].alive = FALSE]
    /\ UNCHANGED exceptTree

HierarchyInit ==
    /\ SysIdle
    /\ fn = NoCall
    /\ LogLevel = Enumeration(0)
    /\ configuration = NoConfiguration
    /\ logger = NoLogger
    /\ sink = << >>
    /\ NoFiles
    /\ processes = << Process(0, ParentExecArgv, 1, TRUE) >>

HierarchyNext ==
    \/ \E p \in Processes : ForkWorker(p)
    \/ \E p \in Processes : WorkerEnds(p)

HierarchySpec == HierarchyInit /\ [][HierarchyNext]_vars

(***************************************************************************)
(* Properties                                                              *)
(***************************************************************************)
Calls == 1..Len(calls)
Workers == 1..Len(workers)
Actors == 1..Len(actors)
ActorsOf(c) == { a \in Actors : actors[a].call = c }
LogHas(level, text) == \E i \in 1..Len(log) : log[i] = LogEntry(level, text)

\* C1: the ready promise fulfils only after the result of
\* context.initialize() has resolved, then the root was created, then the
\* configuration was loaded, then root.initialize() completed, in this
\* order; and it does not fulfil when a step failed.
C1_ReadyAfterStepsInOrder ==
    /\ boot.pc = "ready" =>
          boot.trace = (IF options.context = "none" THEN << >> ELSE << "ctx" >>)
                          \o << "root", "config", "init" >>
    /\ boot.ctx = "rejected" => boot.pc # "ready"

\* C2: with a configuration entry for the decapitalized actor name, the
\* effective options are { mode: 'in-memory' } overridden key by key by the
\* entry, overridden by the caller's options; the entry
\* { mode: 'forked', clusterSize: 3 } with caller { clusterSize: 1 } gives
\* { mode: 'forked', clusterSize: 1 }: one forked actor and no balancer.
C2_ConfigPrecedence ==
    \A c \in Calls :
        /\ (config.defined /\ calls[c].name # NoName
              /\ decapitalize(calls[c].name) \in DOMAIN config.entries) =>
              LET entry == config.entries[decapitalize(calls[c].name)]
                  given == calls[c].given
                  opts == calls[c].opts
              IN  /\ DOMAIN opts = {"mode"} \cup DOMAIN entry \cup DOMAIN given
                  /\ \A k \in DOMAIN opts :
                        opts[k] = IF k \in DOMAIN given THEN given[k]
                                  ELSE IF k \in DOMAIN entry THEN entry[k]
                                  ELSE "in-memory"
        /\ (config = CfgClusters /\ calls[c].beh = FooClass
              /\ calls[c].given = [clusterSize |-> 1]) =>
              /\ calls[c].opts = [mode |-> "forked", clusterSize |-> 1]
              /\ calls[c].kind = "forked"
              /\ Children(c) = {}
              /\ Cardinality(ActorsOf(c)) <= 1
              /\ \A a \in ActorsOf(c) : actors[a].kind = "forked-parent"

C2_Witness ==
    \E c \in Calls :
        /\ config = CfgClusters
        /\ calls[c].beh = FooClass
        /\ calls[c].given = [clusterSize |-> 1]
        /\ calls[c].state = "resolved"
        /\ actors[calls[c].value].kind = "forked-parent"

\* C3: an effective clusterSize N > 1 creates exactly one balancer under the
\* given parent and exactly N children under it, each created with
\* clusterSize = 1 and otherwise the same options, none of them clustered,
\* and the promise resolves with the balancer only after all N child
\* creations have resolved.
C3_ClusterFanOut ==
    \A c \in Calls :
        calls[c].kind = "cluster" =>
            LET n == calls[c].opts.clusterSize
                b == calls[c].balancer
            IN  /\ ~calls[c].started =>
                      /\ Children(c) = {} /\ ActorsOf(c) = {}
                      /\ calls[c].state = "pending"
                /\ calls[c].started =>
                      /\ ActorsOf(c) = {b}
                      /\ actors[b].kind = "balancer"
                      /\ actors[b].parent = calls[c].parent
                      /\ Cardinality(Children(c)) = n
                      /\ \A i \in Children(c) :
                            /\ calls[i].beh = calls[c].beh
                            /\ calls[i].parent = b
                            /\ DOMAIN calls[i].given = DOMAIN calls[c].opts
                            /\ \A k \in DOMAIN calls[c].opts \ {"clusterSize"} :
                                  calls[i].given[k] = calls[c].opts[k]
                            /\ calls[i].given.clusterSize = 1
                            /\ calls[i].opts.clusterSize = 1
                            /\ calls[i].kind # "cluster"
                      /\ Cardinality({ a \in Actors : actors[a].parent = b }) <= n
                /\ calls[c].state = "resolved" =>
                      /\ calls[c].value = b
                      /\ \A i \in Children(c) : calls[i].state = "resolved"
                      /\ Cardinality({ a \in Actors : actors[a].parent = b }) = n

\* A cluster whose size comes from the configuration entry alone, and a
\* forked cluster, each resolved with its balancer.
C3_Witness ==
    \E c \in Calls :
        /\ calls[c].kind = "cluster"
        /\ calls[c].state = "resolved"
        /\ \/ calls[c].given = EmptyObj
           \/ \A i \in Children(c) : calls[i].kind = "forked"

\* C4: createActor with an effective mode other than 'in-memory' and
\* 'forked' fails with the unknown-mode error, creates no actor and forks no
\* worker.
C4_UnknownModeCreatesNothing ==
    \A c \in Calls :
        Get(calls[c].opts, "mode", "in-memory") \notin {"in-memory", "forked"} =>
            /\ calls[c].state # "resolved"
            /\ calls[c].state = "rejected" => calls[c].err = "Unknown actor mode"
            /\ ActorsOf(c) = {}
            /\ calls[c].worker = 0

FrameSeen(c) == calls[c].kind = "forked" /\ calls[c].frame # NoFrame
ResolvedWith(c, f) ==
    /\ calls[c].state = "resolved"
    /\ actors[calls[c].value].kind = "forked-parent"
    /\ actors[calls[c].value].id = << "remote", f.id >>
    /\ actors[calls[c].value].parent = calls[c].parent
    /\ actors[calls[c].value].worker = calls[c].worker
RejectedWith(c, err) == calls[c].state = "rejected" /\ calls[c].err = err
OneParentPerWorker ==
    \A w \in Workers :
        Cardinality({ a \in Actors : actors[a].kind = "forked-parent"
                                       /\ actors[a].worker = w }) <= 1

\* C5 as stated: the first frame received after the create-actor frame was
\* sent decides the outcome: 'actor-created' with a body id resolves with a
\* ForkedActorParent of that id under the given parent; a frame carrying an
\* error rejects with that error; any other frame rejects with 'Unexpected
\* response'; at most one ForkedActorParent is built per worker.
C5_FirstFrameDecides ==
    /\ OneParentPerWorker
    /\ \A c \in Calls :
          FrameSeen(c) =>
              LET f == calls[c].frame
              IN  /\ (f.type = "actor-created" /\ f.id # 0) => ResolvedWith(c, f)
                  /\ f.error # "" => RejectedWith(c, f.error)
                  /\ (f.error = "" /\ ~(f.type = "actor-created" /\ f.id # 0)) =>
                        RejectedWith(c, "Unexpected response")

\* C5 as amended: a frame carrying an error rejects with that error whatever
\* its type; otherwise 'actor-created' with a body id resolves; otherwise the
\* frame rejects with 'Unexpected response'. Without a frame nothing
\* resolves, and at most one ForkedActorParent is built per worker.
C5_ErrorThenCreated ==
    /\ OneParentPerWorker
    /\ \A c \in Calls :
          /\ (calls[c].kind = "forked" /\ calls[c].frame = NoFrame) =>
                calls[c].state # "resolved" /\ calls[c].actor = 0
          /\ FrameSeen(c) =>
                LET f == calls[c].frame
                IN  IF f.error # "" THEN RejectedWith(c, f.error)
                    ELSE IF f.type = "actor-created" /\ f.id # 0
                    THEN ResolvedWith(c, f)
                    ELSE RejectedWith(c, "Unexpected response")

\* One call rejected by an 'actor-created' frame that carries an error, and
\* another resolved by a plain 'actor-created' frame.
C5_Witness ==
    /\ \E c \in Calls :
          /\ calls[c].frame = Frame("actor-created", 1, "boom")
          /\ RejectedWith(c, "boom")
    /\ \E c \in Calls :
          /\ calls[c].frame = Frame("actor-created", 1, "")
          /\ ResolvedWith(c, calls[c].frame)

\* C6: when the worker fails before sending actor-created, the pending call
\* is rejected: once the worker is gone and every callback registered for it
\* has run, the call is no longer pending.
C6_FailedWorkerRejects ==
    \A w \in Workers :
        LET c == workers[w].call
        IN  ( /\ Running
              /\ calls[c].sendDone
              /\ calls[c].frame = NoFrame
              /\ \/ workers[w].state = "exited"
                 \/ workers[w].state = "spawnfail" /\ workers[w].errorEmitted )
            => calls[c].state # "pending"

\* C7: after the parent process has exited, no worker the system forked is
\* alive, whatever the state of its handshake.
C7_NoWorkerSurvivesExit ==
    proc.state = "exited" => \A w \in Workers : workers[w].state # "running"

\* C8: when the parent process exits, also by SIGINT or SIGTERM (logged,
\* then exit), kill() has been called on every worker whose
\* ForkedActorParent had been created.
C8_ExitKillsCreated ==
    proc.state = "exited" =>
        \A w \in Workers :
            (\E a \in Actors : actors[a].kind = "forked-parent" /\ actors[a].worker = w) =>
                /\ workers[w].killCalled
                /\ workers[w].state # "running"
                /\ proc.cause \in {"SIGINT", "SIGTERM"} =>
                      /\ LogHas("info", << "Received", proc.cause, "exiting" >>)
                      /\ log[1].level = "info"

C8_Witness ==
    /\ proc = [state |-> "exited", cause |-> "SIGTERM"]
    /\ Cardinality({ w \in Workers : workers[w].killCalled }) = 2
    /\ \E w \in Workers : workers[w].state = "killed"

\* What _loadConfiguration must leave in this.config.
ExpectedConfig ==
    CASE options.config.kind = "object" -> options.config.value
      [] options.config.kind = "path" /\ fs.given = "good" -> GivenFileConfig
      [] fs.default = "good" -> DefaultFileConfig
      [] OTHER -> NoConfig

\* C9: _loadConfiguration never fails: an object is used directly, a path is
\* read and on failure the default path is tried, an absent config tries the
\* default path, and when that fails too the system goes on without
\* configuration; the ready promise is never rejected because of it.
C9_LoadNeverFails ==
    /\ boot.load # "failed"
    /\ boot.load = "done" => config = ExpectedConfig
    /\ boot.load \in {"idle", "given"} => config = NoConfig
    /\ (boot.load = "default" /\ options.config.kind = "path") => fs.given # "good"
    /\ boot.pc = "rejected" =>
          \/ boot.ctx = "rejected"
          \/ boot.load = "done" /\ boot.trace[Len(boot.trace)] = "config"

\* Both the given and the default file are unusable and the system is ready
\* without configuration.
C9_Witness ==
    /\ boot.pc = "ready"
    /\ options.config.kind = "path"
    /\ fs = [given |-> "badjson", default |-> "missing"]
    /\ config = NoConfig

GivenReadFailed ==
    options.config.kind = "path" /\ fs.given # "good" /\ boot.load \in {"default", "done"}
DefaultReadFailed ==
    /\ boot.load = "done"
    /\ options.config.kind # "object"
    /\ ~(options.config.kind = "path" /\ fs.given = "good")
    /\ fs.default # "good"

\* C10: every failure to read or parse a configuration file, the given path
\* or the default one, is logged at warn level before the next fallback.
C10_FailuresWarned ==
    /\ GivenReadFailed =>
          LogHas("warn", << "Failed to load actor configuration file", "given" >>)
    /\ DefaultReadFailed =>
          LogHas("warn", << "Failed to load actor configuration file", "default" >>)

\* The debug ports a worker was forked with.
DebugPorts(argv) == { argv[i].port : i \in { j \in 1..Len(argv) : argv[j].debugBrk } }

\* C11: in a system whose process runs with a --debug-brk=<port> argument,
\* every worker is forked with a debug port strictly greater than the
\* parent's, no two workers of the system get the same port, whatever the
\* overlap of their creations, and debugPortCounter never decreases.
C11_DebugPortsDistinct ==
    /\ [](\A w \in Workers :
            /\ DebugPorts(workers[w].execArgv) # {}
            /\ \A p \in DebugPorts(workers[w].execArgv), q \in DebugPorts(execArgv) : p > q
            /\ \A v \in Workers :
                  v # w => DebugPorts(workers[v].execArgv)
                              \cap DebugPorts(workers[w].execArgv) = {})
    /\ [][debugPortCounter' >= debugPortCounter]_vars

\* Two workers forked while neither handshake has completed.
C11_Witness ==
    /\ Len(workers) = 2
    /\ DebugPorts(execArgv) # {}
    /\ \A w \in Workers :
          /\ workers[w].state = "running"
          /\ calls[workers[w].call].state = "pending"
    /\ debugPortCounter = 3

\* The name with its first letter in lower case.
LowerFirst(name) ==
    CASE name = Foo -> foo
      [] name = Bar -> bar
      [] OTHER -> name

\* The key of the entry createActor read: none for the empty name.
KeyRead(B, name) ==
    /\ fn.method = "createActor" /\ fn.arg = B =>
          IF name = NoName THEN fn.ret = EmptyObj
          ELSE fn.ret = [mode |-> "in-memory", key |-> LowerFirst(name)]

NamedFrom(chain) ==
    CHOOSE k \in 1..Len(chain) :
        /\ \A j \in k..(Len(chain) - 1) : chain[j].name # NoName
        /\ k > 1 => chain[k - 1].name = NoName

\* C13: for a class with named ancestors C0 .. Cn (the class itself),
\* _serializeBehaviour returns source(C0) + ... + source(Cn), base-most
\* first, each class once; the walk stops at the first ancestor without a
\* name; a plain data record is one expression; and the recursion ends
\* within the length of the chain.
C13_SerializeBaseFirst ==
    /\ (fn.method = "_serializeBehaviour" /\ ~fn.done) => ENABLED SerializeReturns
    /\ (fn.method = "_serializeBehaviour" /\ fn.done) =>
        LET chain == fn.arg.chain
            n == Len(chain)
        IN  /\ fn.ret.calls <= n
            /\ fn.arg.plain => fn.ret.src = << chain[n].src >>
            /\ ~fn.arg.plain =>
                  LET k == NamedFrom(chain)
                  IN  /\ Len(fn.ret.src) = n - k + 1
                      /\ \A i \in 1..(n - k + 1) :
                            fn.ret.src[i] = chain[k + i - 1].src
                      /\ fn.ret.calls = n - k + 1

\* A class with three ancestors of which the root-most is anonymous: the two
\* named ancestors and the class are serialized, in this order.
C13_Witness ==
    /\ fn.method = "_serializeBehaviour"
    /\ fn.done
    /\ fn.arg.chain = << Class(NoName, 1), Class(Foo, 2), Class(Bar, 3), Class(Foo, 4) >>
    /\ fn.ret.src = << 2, 3, 4 >>

\* C14: default() creates the default system on its first call and returns
\* that same instance on every later call; it never returns an absent value
\* and never creates a second instance.
C14_DefaultIsSingleton ==
    /\ systems <= 1
    /\ \A i \in 1..Len(returned) :
          /\ returned[i] # 0
          /\ returned[i] = returned[1]
          /\ systems = 1

\* C15: once the root is selected it is, with options.forked set, a
\* ForkedActorChild whose parent is an ActorStub of id options.forked.id and
\* whose inner actor is an in-memory root built from options.root; otherwise,
\* with options.root set, an in-memory actor of that behaviour; otherwise a
\* neutral RootActor.
C15_RootSelection ==
    boot.pc \in {"load", "init", "ready"} =>
        LET root == actors[boot.root]
        IN  IF options.forked # 0
            THEN /\ root.kind = "forked-child"
                 /\ actors[root.parent].kind = "stub"
                 /\ actors[root.parent].id = << "remote", options.forked >>
                 /\ actors[root.inner].kind = "in-memory"
                 /\ actors[root.inner].name = _actorName(options.root)
            ELSE IF options.hasRoot
            THEN /\ root.kind = "in-memory"
                 /\ root.name = _actorName(options.root)
                 /\ root.parent = 0
            ELSE root.kind = "root"

\* C19: when a forked createActor call fails before actor-created (send
\* error, worker error, error frame or unexpected frame), the worker forked
\* for it is killed: it is not left running.
C19_FailedHandshakeKillsWorker ==
    \A c \in Calls :
        (calls[c].kind = "forked" /\ calls[c].state = "rejected" /\ calls[c].worker # 0) =>
            \/ workers[calls[c].worker].killCalled
            \/ workers[calls[c].worker].state # "running"

\* The logger is as silent() returned it.
IsSilent ==
    /\ logger.exists
    /\ ~logger.configured
    /\ logger.sets = 0
    /\ logger.level = LogLevel["Silent"]

\* C16: a logger returned by silent() logs nothing: after any sequence of
\* calls of debug, log, info, warn and error on it the underlying sink has
\* received no message.
C16_SilentLogsNothing == IsSilent => sink = << >>

\* The level a configuration gives a category: the category's own, else the
\* Default category's, else none.
Given(dict, category) ==
    IF category \in DOMAIN dict.categories THEN Val(LogLevel[dict.categories[category]])
    ELSE IF "Default" \in DOMAIN dict.categories
    THEN Val(LogLevel[dict.categories["Default"]])
    ELSE Undefined

\* C17: a LogWrapper built with a configuration tracks it: after every
\* configChange event the configuration emits, the logger's level is the
\* level the configuration gives for the logger's category, or for Default
\* when the category has none, and is the previous level only when the
\* configuration gives neither.
C17_LevelTracksConfiguration ==
    [][ ( /\ logger.exists /\ logger.configured /\ logger.sets = 0
          /\ configuration'.emitted > configuration.emitted
          /\ configuration'.current.kind = "map" )
        => logger'.level =
              (IF Given(configuration'.current, logger.category).def
               THEN Given(configuration'.current, logger.category).n
               ELSE logger.level) ]_vars

\* C18: every assignment to current stores the value and emits configChange,
\* and afterwards current.categories is a usable category map (the default
\* categories when the value was absent or its categories not an object),
\* so that getCategoryLevel never fails.
C18_CurrentAlwaysUsable ==
    configuration.exists =>
        /\ configuration.emitted >= 2
        /\ configuration.current.defined
        /\ configuration.current.kind = "map"
        /\ ~getCategoryLevel(configuration.current, "Foo").threw
        /\ ~configuration.threw

\* Changes have stopped and every notification and every run of the
\* callback has completed.
Settled ==
    /\ notified = {}
    /\ Len(reloads) > 0
    /\ \A r \in 1..Len(reloads) : reloads[r].done

\* C20: once changes stop and every reload callback has completed,
\* configuration.current is the merge of the latest contents of the
\* configured files, whatever the interleaving of notifications and reads:
\* a reload that started earlier does not overwrite the result of one that
\* read newer contents. Stated for runs in which every text read parsed
\* and no watcher was cancelled.
C20_ReloadsConverge ==
    ( /\ Settled
      /\ watching = Paths
      /\ \A r \in 1..Len(reloads), i \in Paths : Parses(reloads[r].read[i])
      /\ \A i \in Paths : Parses(files[i]) )
    => configuration.current = Stored(Merged(files, Paths))

Warned(path) == \E k \in 1..Len(sink) : sink[k].via = "warn" /\ sink[k].path = path
Runs == 1..Len(reloads)
\* The file of the path failed in some run of the callback.
FailedInRun(path) ==
    \E r \in Runs : reloads[r].read[path] # PendingRead /\ ~Parses(reloads[r].read[path])

\* C21: createConfigFromFiles never fails because of a file. On the initial
\* load a path that does not give a parsable text is skipped with a warning
\* and the configuration is built from the others (the default configuration
\* when none is usable); on a reload a failing file is ignored with a
\* warning, and the watchers on the other paths keep triggering reloads.
C21_FailingFileIgnored ==
    /\ configuration.exists /\ ~configuration.threw
    /\ configuration.current.kind = "map"
    /\ (changes = 0 /\ reloads = << >>) =>
          /\ configuration.current =
                Stored(Merged(files, { i \in Paths : Parses(files[i]) }))
          /\ \A i \in Paths : ~Parses(files[i]) => Warned(i)
    /\ \A i \in Paths : FailedInRun(i) => Warned(i)
    /\ \A i \in Paths : ~FailedInRun(i) => i \in watching

\* The severity of a call.
Severity(method) ==
    CASE method = "debug" -> LogLevel["Debug"]
      [] method \in {"log", "info"} -> LogLevel["Info"]
      [] method = "warn" -> LogLevel["Warn"]

\* C22: for every level, a call of debug, log, info or warn forwards the
\* message to the underlying sink exactly once if the logger's level is at
\* least the call's severity (Debug for debug, Info for log and info, Warn
\* for warn) and not at all otherwise, and changes neither the logger's
\* level nor its category.
C22_ForwardedIffSevere ==
    /\ [](\A m \in {"debug", "log", "info", "warn"} :
            (logger.exists /\ Len(sink) < MaxLogCalls) =>
                /\ ENABLED LogCall(m)
                /\ (logger.level >= Severity(m)) <=>
                      ENABLED (LogCall(m) /\ Len(sink') = Len(sink) + 1)
                /\ (logger.level < Severity(m)) <=>
                      ENABLED (LogCall(m) /\ sink' = sink))
    /\ [][ (sink' # sink /\ sink'[Len(sink')].via # "error") =>
              /\ Len(sink') = Len(sink) + 1
              /\ \A k \in 1..Len(sink) : sink'[k] = sink[k]
              /\ logger.level >= Severity(sink'[Len(sink')].via)
              /\ logger' = logger
              /\ configuration' = configuration ]_vars

\* An info message forwarded by a logger at exactly Info, a warning by one at
\* exactly Warn.
C22_Witness ==
    /\ logger.level \in { LogLevel["Info"], LogLevel["Warn"] }
    /\ Len(sink) = 2
    /\ sink[2].via = IF logger.level = LogLevel["Info"] THEN "log" ELSE "warn"
    /\ sink[1].via = "warn"

\* C23: the root built from options.root is never placed by configuration:
\* whatever the configuration, also with an entry for the root's own name
\* that asks for mode 'forked' or a cluster, it is created while this.config
\* is still undefined, as a single in-memory actor; no worker is forked and
\* no balancer is created for it.
C23_RootNotPlacedByConfig ==
    /\ boot.pc \in {"ctx", "root"} => config = NoConfig
    /\ options.hasRoot =>
          /\ Len(calls) <= 1
          /\ workers = << >>
          /\ \A a \in Actors : actors[a].kind # "balancer"
          /\ \A c \in Calls :
                /\ calls[c].kind = "in-memory"
                /\ calls[c].opts = [mode |-> "in-memory"]
                /\ Cardinality(ActorsOf(c)) <= 1
          /\ boot.pc \in {"load", "init", "ready"} =>
                /\ Cardinality({ a \in Actors : actors[a].kind = "in-memory" }) = 1
                /\ LET root == actors[boot.root]
                       own == IF options.forked # 0 THEN actors[root.inner] ELSE root
                   IN  own.kind = "in-memory" /\ own.name = _actorName(options.root)

\* A ready system whose loaded configuration asks for a forked cluster of
\* the root's own name.
C23_Witness ==
    /\ boot.pc = "ready"
    /\ options.hasRoot
    /\ config = CfgClusters
    /\ decapitalize(_actorName(options.root)) \in DOMAIN config.entries
    /\ config.entries[decapitalize(_actorName(options.root))] =
          [mode |-> "forked", clusterSize |-> 3]
    /\ actors[calls[1].value].kind = "in-memory"

\* C24: once a client has assigned LogWrapper.level, the logger is detached
\* from its configuration: a later configChange event leaves the assigned
\* level unchanged.
C24_AssignedLevelDetached ==
    [][ /\ logger.exists /\ logger.configured /\ logger.sets > 0
        /\ configuration'.emitted > configuration.emitted
        => logger'.level = logger.level ]_vars

\* C25: across the whole hierarchy, where every forked worker runs an
\* ActorSystem of its own with a debugPortCounter starting at 1 and may fork
\* further workers, no two worker processes alive at the same time are
\* given the same debug port.
C25_HierarchyPortsDistinct ==
    \A p \in Processes, q \in Processes :
        /\ p # q /\ p > 1 /\ q > 1
        /\ processes[p].alive /\ processes[q].alive
        => DebugPorts(processes[p].execArgv)
              \cap DebugPorts(processes[q].execArgv) = {}

====
